---------------------------- MODULE Spec2Model ----------------------------
(***************************************************************************)
(* A model of the strict-types library: the type algebra Ty<Ref>, the      *)
(* reference forms, semantic ids, path navigation (Ty::at_path) and the    *)
(* assembly and identification of type libraries.                          *)
(*                                                                         *)
(* Values are modelled as follows.                                         *)
(*   Option<T>      None is <<>>, Some(x) is <<x>>.                        *)
(*   Ty<Ref>        a record with a "kind" field (TyInner's variant).      *)
(*   a reference    a record with a "form" field (the Rust type of the     *)
(*                  reference) and a "ref" field (its variant).            *)
(*   a digest       Sha256 is taken to be collision free: a digest is the  *)
(*                  record of the sequence of items fed to the hasher.     *)
(*                  Every item is a pair <<item kind, payload>>.           *)
(***************************************************************************)
EXTENDS Integers, Sequences, FiniteSets, TLC

VARIABLES
    \* ---- Ty::at_path (src/src/ast/path.rs) ----
    pc,           \* "idle", "loop" or "done": position inside at_path
    self_ty,      \* the type at_path is called on (self)
    paths,        \* the two Path values: "caller" (the argument) and "local" (the clone)
    path_ref,     \* which Path value the local binding `path` designates
    ty,           \* the local `ty`
    path_so_far,  \* the local `path_so_far`
    result,       \* None, or Some(Ok(ty) / Err(PathError))
    \* ---- library assembly (src/src/dtl.rs, src/src/typelib) ----
    phase,        \* "building", "frozen" or "failed"
    lib,          \* the library under construction / the frozen library
    index,        \* TypeIndex: the ordered map SemId -> TypeName
    error,        \* None or Some(TranslateError)
    log,          \* the contributions made so far, in the order they were made
    \* ---- reference values (src/src/typelib/type_lib.rs, src/src/dtl.rs) ----
    cur_ref,      \* a reference value built by the constructors of its form
    \* ---- calls of the value operations (src/src/util.rs, src/src/dtl/gravel.rs) ----
    call          \* None, or Some([op, input, out]): the last call and its outcome

vars == <<pc, self_ty, paths, path_ref, ty, path_so_far, result,
          phase, lib, index, error, log, cur_ref, call>>

pathVars == <<pc, self_ty, paths, path_ref, ty, path_so_far, result>>
libVars == <<phase, lib, index, error, log>>
refVars == <<cur_ref>>
callVars == <<call>>

-----------------------------------------------------------------------------
(* Bounds of the model.                                                    *)

MaxPathLen == 3
MaxWrap == 5
MaxContrib == 3

-----------------------------------------------------------------------------
(* Option and sequence helpers.                                            *)

None == <<>>
Some(x) == <<x>>
IsSome(o) == Len(o) = 1
Unwrap(o) == o[1]

Front(s) == SubSeq(s, 1, Len(s) - 1)
Last(s) == s[Len(s)]

RECURSIVE SeqsUpTo(_, _)
SeqsUpTo(S, n) ==
    IF n = 0 THEN {<<>>}
    ELSE LET shorter == SeqsUpTo(S, n - 1)
         IN  shorter \cup {Append(s, x) : s \in shorter, x \in S}

Range(s) == {s[i] : i \in DOMAIN s}

-----------------------------------------------------------------------------
(* Primitive codes: PrimitiveType, src/src/schema.rs.                      *)

U8 == 0
U16 == 1
U32 == 2
U64 == 3
BYTES == 255

(* Sizing, src/src/util.rs: Sizing::U16 and Sizing::U8.                    *)
U16_MAX == 65535
U8_MAX == 255
SizingNew(min, max) == [min |-> min, max |-> max]
SizingU16 == SizingNew(0, U16_MAX)
SizingU8 == SizingNew(0, U8_MAX)

-----------------------------------------------------------------------------
(* The type algebra Ty<Ref> (spec 3.2).                                    *)

Primitive(code) == [kind |-> "Primitive", code |-> code]
Field(ord, name, r) == [ord |-> ord, name |-> name, ty |-> r]
Struct(fields) == [kind |-> "Struct", fields |-> fields]
Union(fields) == [kind |-> "Union", fields |-> fields]
Array(r, len) == [kind |-> "Array", ty |-> r, len |-> len]
List(r, sizing) == [kind |-> "List", ty |-> r, sizing |-> sizing]
Set(r, sizing) == [kind |-> "Set", ty |-> r, sizing |-> sizing]
Map(key, r, sizing) == [kind |-> "Map", key |-> key, ty |-> r, sizing |-> sizing]

Variant(ord, name) == [ord |-> ord, name |-> name]
Enum(variants) == [kind |-> "Enum", variants |-> variants]
Unicode(sizing) == [kind |-> "Unicode", sizing |-> sizing]

(* Ty::UNIT: the struct with no field.                                     *)
UNIT == Struct(<<>>)

-----------------------------------------------------------------------------
(* Reference forms.  LibRef, InlineRef, InlineRef1 and InlineRef2 are the  *)
(* ladder of src/src/typelib/type_lib.rs; KeyTy is its leaf (KeyType of    *)
(* src/src/schema.rs); DtlInlineRef is InlineRef of src/src/dtl.rs.        *)

LibRefNamed(name, id) == [form |-> "LibRef", ref |-> "Named", name |-> name, id |-> id]
LibRefInline(t) == [form |-> "LibRef", ref |-> "Inline", ty |-> t]
LibRefExtern(name, alias, id) ==
    [form |-> "LibRef", ref |-> "Extern", name |-> name, alias |-> alias, id |-> id]

LadderForms == <<"LibRef", "InlineRef", "InlineRef1", "InlineRef2", "KeyTy">>

InlineRefBuiltin(form, t) == [form |-> form, ref |-> "Builtin", ty |-> t]
InlineRefNamed(form, name, id) == [form |-> form, ref |-> "Named", name |-> name, id |-> id]
InlineRefExtern(form, name, alias, id) ==
    [form |-> form, ref |-> "Extern", name |-> name, alias |-> alias, id |-> id]

KeyTyPrimitive(code) == [form |-> "KeyTy", ref |-> "Primitive", code |-> code]

(* StenType { name, ty }: a node of the type tree given to the builder;    *)
(* name is "" for an anonymous node, lib is "" for a node of this library  *)
(* and the alias of a dependency otherwise.                                *)
Sten(name, alias, t) == [form |-> "StenType", name |-> name, lib |-> alias, ty |-> t]

DtlName(name) == [form |-> "DtlInlineRef", ref |-> "Name", name |-> name]
DtlInline(t) == [form |-> "DtlInlineRef", ref |-> "Inline", ty |-> t]

-----------------------------------------------------------------------------
(* Semantic ids.                                                           *)

LIB_ID_TAG == "urn:ubideco:strict-types:lib:v01"

Item(kind, payload) == <<kind, payload>>

Sha256(items) == [sha256 |-> items]

(* The tagged hash of TypeLib::id: the hashed tag fed twice, then the      *)
(* content.                                                                *)
TaggedHash(content) ==
    LET tag == Sha256(<<Item("bytes", LIB_ID_TAG)>>)
    IN  Sha256(<<Item("id", tag), Item("id", tag)>> \o content)

RECURSIVE TyId(_, _), TyBody(_), FieldsCommit(_), RefId(_)
RECURSIVE LibRef_id(_), InlineRef_id(_), InlineRef1_id(_), InlineRef2_id(_)
RECURSIVE StenType_id(_)

(* Ty::id(name) (spec 4.3): the variant, the name when given, the body.    *)
TyId(t, name) ==
    TaggedHash(<<Item("cls", t.kind)>>
               \o (IF IsSome(name) THEN <<Item("str", Unwrap(name))>> ELSE <<>>)
               \o TyBody(t))

FieldsCommit(fields) ==
    IF fields = <<>> THEN <<>>
    ELSE LET f == Head(fields)
         IN  <<Item("u8", f.ord), Item("name", f.name), Item("id", RefId(f.ty))>>
             \o FieldsCommit(Tail(fields))

TyBody(t) ==
    CASE t.kind = "Primitive" -> <<Item("u8", t.code)>>
      [] t.kind \in {"Struct", "Union"} ->
            <<Item("u8", Len(t.fields))>> \o FieldsCommit(t.fields)
      [] t.kind = "Array" -> <<Item("id", RefId(t.ty)), Item("u16", t.len)>>
      [] t.kind \in {"List", "Set"} ->
            <<Item("id", RefId(t.ty)),
              Item("u16", t.sizing.min), Item("u16", t.sizing.max)>>
      [] t.kind = "Map" ->
            <<Item("id", RefId(t.key)), Item("id", RefId(t.ty)),
              Item("u16", t.sizing.min), Item("u16", t.sizing.max)>>
      [] t.kind = "Enum" ->
            <<Item("u8", Len(t.variants))>>
            \o [i \in DOMAIN t.variants |-> Item("variant", t.variants[i])]
      [] t.kind = "Unicode" ->
            <<Item("u16", t.sizing.min), Item("u16", t.sizing.max)>>

(* KeyTy's id: the commitment to a primitive key.                          *)
KeyTy_id(k) == TaggedHash(<<Item("cls", "Primitive"), Item("u8", k.code)>>)

(* impl TypeRef for LibRef / InlineRef / InlineRef1 / InlineRef2.          *)
LibRef_id(r) ==
    IF r.ref \in {"Named", "Extern"} THEN r.id ELSE TyId(r.ty, None)

InlineRef_id(r) ==
    IF r.ref \in {"Named", "Extern"} THEN r.id ELSE TyId(r.ty, None)

InlineRef1_id(r) ==
    IF r.ref \in {"Named", "Extern"} THEN r.id ELSE TyId(r.ty, None)

InlineRef2_id(r) ==
    IF r.ref \in {"Named", "Extern"} THEN r.id ELSE TyId(r.ty, None)

(* A StenType node commits to its type and, when it has one, its name.     *)
StenType_id(node) ==
    TyId(node.ty, IF node.name = "" THEN None ELSE Some(node.name))

(* Ty::hash_id: what a type feeds into a hasher it is handed, the variant  *)
(* and the body (spec 4.3, items 1 and 3).                                 *)
Ty_hash_id(t) == <<Item("cls", t.kind)>> \o TyBody(t)

(* impl HashId for LibRef / InlineRef / InlineRef1 / InlineRef2: a stored  *)
(* id is fed as it is, an inline type feeds its own hash_id.               *)
LibRef_hash_id(r) ==
    IF r.ref \in {"Named", "Extern"} THEN <<Item("id", r.id)>> ELSE Ty_hash_id(r.ty)

InlineRef_hash_id(r) ==
    IF r.ref \in {"Named", "Extern"} THEN <<Item("id", r.id)>> ELSE Ty_hash_id(r.ty)

InlineRef1_hash_id(r) ==
    IF r.ref \in {"Named", "Extern"} THEN <<Item("id", r.id)>> ELSE Ty_hash_id(r.ty)

InlineRef2_hash_id(r) ==
    IF r.ref \in {"Named", "Extern"} THEN <<Item("id", r.id)>> ELSE Ty_hash_id(r.ty)

(* R::hash_id() for the reference form R of the value r.                   *)
RefHashId(r) ==
    CASE r.form = "LibRef" -> LibRef_hash_id(r)
      [] r.form = "InlineRef" -> InlineRef_hash_id(r)
      [] r.form = "InlineRef1" -> InlineRef1_hash_id(r)
      [] r.form = "InlineRef2" -> InlineRef2_hash_id(r)

(* R::id() for the reference form R of the value r (static dispatch).      *)
RefId(r) ==
    CASE r.form = "LibRef" -> LibRef_id(r)
      [] r.form = "InlineRef" -> InlineRef_id(r)
      [] r.form = "InlineRef1" -> InlineRef1_id(r)
      [] r.form = "InlineRef2" -> InlineRef2_id(r)
      [] r.form = "KeyTy" -> KeyTy_id(r)
      [] r.form = "StenType" -> StenType_id(r)

-----------------------------------------------------------------------------
(* Path navigation: src/src/ast/path.rs.                                   *)

NamedField(name) == [step |-> "NamedField", name |-> name]
UnnamedField(ord) == [step |-> "UnnamedField", ord |-> ord]
StepIndex == [step |-> "Index"]
StepList == [step |-> "List"]
StepSet == [step |-> "Set"]
StepMap == [step |-> "Map"]

(* NestedRef::as_ty (src/src/dtl/gravel.rs): the type a reference derefs   *)
(* to; a named or extern reference holds no type and gives Ty::UNIT.       *)
as_ty(r) == IF r.ref \in {"Inline", "Builtin"} THEN r.ty ELSE UNIT

(* fields.iter().find(pred).map(|(_, ty)| ty)                              *)
RECURSIVE FindByName(_, _)
FindByName(fields, name) ==
    IF fields = <<>> THEN None
    ELSE IF Head(fields).name = Some(name) THEN Some(Head(fields).ty)
    ELSE FindByName(Tail(fields), name)

RECURSIVE FindByOrd(_, _)
FindByOrd(fields, ord) ==
    IF fields = <<>> THEN None
    ELSE IF Head(fields).ord = ord THEN Some(Head(fields).ty)
    ELSE FindByOrd(Tail(fields), ord)

(* A plausible slip: the lookup takes the first field whatever its name.   *)
MatchStep_FirstField(t, step) ==
    CASE t.kind \in {"Struct", "Union"} /\ step.step \in {"NamedField", "UnnamedField"} ->
            IF t.fields = <<>> THEN None ELSE Some(t.fields[1].ty)
      [] t.kind = "Array" /\ step.step = "Index" -> Some(t.ty)
      [] t.kind = "List" /\ step.step = "List" -> Some(t.ty)
      [] t.kind = "Set" /\ step.step = "Set" -> Some(t.ty)
      [] t.kind = "Map" /\ step.step = "Map" -> Some(t.key)
      [] OTHER -> None

(* A match that takes the key of a map for its value.                      *)
MatchStep_MapKey(t, step) ==
    CASE t.kind \in {"Struct", "Union"} /\ step.step = "NamedField" ->
            FindByName(t.fields, step.name)
      [] t.kind \in {"Struct", "Union"} /\ step.step = "UnnamedField" ->
            FindByOrd(t.fields, step.ord)
      [] t.kind = "Array" /\ step.step = "Index" -> Some(t.ty)
      [] t.kind = "List" /\ step.step = "List" -> Some(t.ty)
      [] t.kind = "Set" /\ step.step = "Set" -> Some(t.ty)
      [] t.kind = "Map" /\ step.step = "Map" -> Some(t.key)
      [] OTHER -> None

(* The match of the loop body: the reference the step selects in type t.   *)
MatchStep(t, step) ==
    CASE t.kind \in {"Struct", "Union"} /\ step.step = "NamedField" ->
            FindByName(t.fields, step.name)
      [] t.kind \in {"Struct", "Union"} /\ step.step = "UnnamedField" ->
            FindByOrd(t.fields, step.ord)
      [] t.kind = "Array" /\ step.step = "Index" -> Some(t.ty)
      [] t.kind = "List" /\ step.step = "List" -> Some(t.ty)
      [] t.kind = "Set" /\ step.step = "Set" -> Some(t.ty)
      [] t.kind = "Map" /\ step.step = "Map" -> Some(t.ty)
      [] OTHER -> None

Ok(t) == [ok |-> TRUE, ty |-> t]
PathError(t, path) == [ok |-> FALSE, ty |-> t, path |-> path]


(* The types at_path is exercised on.  Input and the struct below          *)
(* "inputs" are inline; Output is reached through a Named reference and    *)
(* Foo through an Extern reference.                                        *)
P(code) == LibRefInline(Primitive(code))

OutputTy ==
    Struct(<<Field(0, Some("value"), P(U64)), Field(1, Some("script"), P(BYTES))>>)

InputTy ==
    Struct(<<Field(0, Some("value"), P(U64)), Field(1, Some("seq"), P(U32))>>)

TransactionTy ==
    Struct(<<Field(0, Some("version"), P(U32)),
             Field(1, Some("inputs"), LibRefInline(List(LibRefInline(InputTy), SizingU16))),
             Field(2, Some("outputs"),
                   LibRefInline(List(LibRefNamed("Output", TyId(OutputTy, Some("Output"))),
                                     SizingU16))),
             Field(3, Some("locktime"), P(U32))>>)

MapTy == Map(KeyTyPrimitive(U8), LibRefInline(List(P(U16), SizingU8)), SizingU16)

ArrayTy == Array(LibRefInline(InputTy), 32)

SetTy == Set(LibRefExtern("Foo", "std", TyId(Primitive(U8), Some("Foo"))), SizingU8)

UnionTy ==
    Union(<<Field(0, Some("value"), LibRefNamed("Output", TyId(OutputTy, Some("Output")))),
            Field(1, None, LibRefInline(ArrayTy))>>)

EnumTy == Enum(<<Variant(0, "inputs"), Variant(1, "value")>>)

UnicodeTy == Unicode(SizingU16)

PathTypes ==
    {TransactionTy, OutputTy, MapTy, ArrayTy, SetTy, UnionTy, Primitive(U8), EnumTy, UnicodeTy}

Steps ==
    {NamedField(n) : n \in {"inputs", "value", "missing"}}
    \cup {UnnamedField(o) : o \in {0, 1}}
    \cup {StepIndex, StepList, StepSet, StepMap}

Paths == SeqsUpTo(Steps, MaxPathLen)

(* let mut path = path.clone(): the local binding designates a Path value  *)
(* of its own.                                                             *)
AliasedBinding == "caller"

ClonedBinding == "local"

(* at_path is entered: ty = self, path = path.clone(),                     *)
(* path_so_far = Path::new().                                              *)
AtPathCall ==
    /\ pc = "idle"
    /\ \E t \in PathTypes, p \in Paths :
          /\ self_ty' = t
          /\ paths' = [caller |-> p, local |-> p]
          /\ ty' = t
    /\ path_ref' = ClonedBinding
    /\ path_so_far' = <<>>
    /\ result' = None
    /\ pc' = "loop"
    /\ UNCHANGED <<libVars, refVars, callVars>>

(* One iteration of `while let Some(step) = path.pop()`: Vec::pop takes    *)
(* the last step; the match is on self; the step is pushed on              *)
(* path_so_far; a missing result returns the PathError through `?`.        *)
AtPathStep ==
    /\ pc = "loop"
    /\ paths[path_ref] # <<>>
    /\ LET step == Last(paths[path_ref])
           res == MatchStep(self_ty, step)
           so_far == Append(path_so_far, step)
       IN  /\ paths' = [paths EXCEPT ![path_ref] = Front(@)]
           /\ path_so_far' = so_far
           /\ IF IsSome(res)
              THEN /\ ty' = as_ty(Unwrap(res))
                   /\ UNCHANGED <<pc, result>>
              ELSE /\ result' = Some(PathError(self_ty, so_far))
                   /\ pc' = "done"
                   /\ UNCHANGED ty
    /\ UNCHANGED <<self_ty, path_ref, libVars, refVars, callVars>>

(* path.pop() gives None: Ok(ty).                                          *)
AtPathReturn ==
    /\ pc = "loop"
    /\ paths[path_ref] = <<>>
    /\ result' = Some(Ok(ty))
    /\ pc' = "done"
    /\ UNCHANGED <<self_ty, paths, path_ref, ty, path_so_far, libVars, refVars, callVars>>

(* The caller drops the result and the path; the next call may start.      *)
AtPathDone ==
    /\ pc = "done"
    /\ pc' = "idle"
    /\ self_ty' = UNIT
    /\ paths' = [caller |-> <<>>, local |-> <<>>]
    /\ path_ref' = ClonedBinding
    /\ ty' = UNIT
    /\ path_so_far' = <<>>
    /\ result' = None
    /\ UNCHANGED <<libVars, refVars, callVars>>

PathInit ==
    /\ pc = "idle"
    /\ self_ty = UNIT
    /\ paths = [caller |-> <<>>, local |-> <<>>]
    /\ path_ref = ClonedBinding
    /\ ty = UNIT
    /\ path_so_far = <<>>
    /\ result = None

LibIdle ==
    /\ phase = "idle"
    /\ lib = <<>>
    /\ index = <<>>
    /\ error = None
    /\ log = <<>>

RefIdle == cur_ref = <<>>

CallIdle == call = <<>>

InitPath == PathInit /\ LibIdle /\ RefIdle /\ CallIdle

NextPath == AtPathCall \/ AtPathStep \/ AtPathReturn \/ AtPathDone

SpecPath == InitPath /\ [][NextPath]_vars


-----------------------------------------------------------------------------
(* Claims about path navigation, checked under SpecPath.                   *)

(* The references a single step selects in a type, stated from the type    *)
(* alone: the field or variant with that name or ordinal, the element of   *)
(* an array, list or set, the value of a map.                              *)
Selected(t, step) ==
    CASE t.kind \in {"Struct", "Union"} /\ step.step = "NamedField" ->
            {t.fields[i].ty : i \in {j \in DOMAIN t.fields : t.fields[j].name = <<step.name>>}}
      [] t.kind \in {"Struct", "Union"} /\ step.step = "UnnamedField" ->
            {t.fields[i].ty : i \in {j \in DOMAIN t.fields : t.fields[j].ord = step.ord}}
      [] t.kind = "Array" /\ step.step = "Index" -> {t.ty}
      [] t.kind = "List" /\ step.step = "List" -> {t.ty}
      [] t.kind = "Set" /\ step.step = "Set" -> {t.ty}
      [] t.kind = "Map" /\ step.step = "Map" -> {t.ty}
      [] OTHER -> {}

(* The type a reference stands for when a walk goes through it.            *)
Held(r) == IF r.ref \in {"Inline", "Builtin"} THEN r.ty ELSE UNIT

(* The left-to-right walk: s1 on t, s2 on the type reached, and so on.     *)
RECURSIVE Walk(_, _)
Walk(t, p) ==
    IF p = <<>> THEN Some(t)
    ELSE LET sel == Selected(t, Head(p))
         IN  IF sel = {} THEN None
             ELSE Walk(Held(CHOOSE r \in sel : TRUE), Tail(p))

(* The index of the first step the left-to-right walk does not admit; 0    *)
(* when every step is admitted.                                            *)
FirstRejected(t, p) ==
    LET bad == {k \in 1..Len(p) : Walk(t, SubSeq(p, 1, k)) = None}
    IN  IF bad = {} THEN 0 ELSE CHOOSE k \in bad : \A j \in bad : k <= j

CallerPath == paths["caller"]

(* C1: when at_path returns, the result is the type reached from self by   *)
(* the steps of the path taken left to right, each step resolved against   *)
(* the type reached by the steps before it.                                *)
C1_LeftToRightWalk ==
    (pc = "done" /\ Walk(self_ty, CallerPath) # None)
        => result = Some(Ok(Unwrap(Walk(self_ty, CallerPath))))

(* C2: when at_path fails, the error's path is the prefix of the input     *)
(* path that ends with the first step that is not admitted.                *)
C2_ErrorPathIsPrefix ==
    (pc = "done" /\ ~Unwrap(result).ok)
        => LET k == FirstRejected(self_ty, CallerPath)
           IN  /\ k > 0
               /\ Unwrap(result).path = SubSeq(CallerPath, 1, k)

(* C3, as stated: for every reference r (inline, Named or Extern) that a   *)
(* one-step path selects, at_path succeeds and returns a type whose        *)
(* id(None) is r.id().                                                     *)
C3_PathSoundnessAnyRef ==
    (pc = "done" /\ Len(CallerPath) = 1)
        => \A r \in Selected(self_ty, CallerPath[1]) :
              /\ Unwrap(result).ok
              /\ TyId(Unwrap(result).ty, None) = RefId(r)

(* C3, amended: the same for every inline reference r; for a Named or      *)
(* Extern reference at_path succeeds and returns Ty::UNIT.                 *)
C3_PathSoundnessInline ==
    (pc = "done" /\ Len(CallerPath) = 1)
        => \A r \in Selected(self_ty, CallerPath[1]) :
              /\ Unwrap(result).ok
              /\ r.ref = "Inline" => TyId(Unwrap(result).ty, None) = RefId(r)
              /\ r.ref # "Inline" => Unwrap(result).ty = UNIT

C3_Witness ==
    /\ pc = "done"
    /\ self_ty = TransactionTy
    /\ CallerPath = <<NamedField("inputs")>>
    /\ Unwrap(result).ok
    /\ Unwrap(result).ty.kind = "List"

(* C4: at_path with the empty path returns self, and no step of a call     *)
(* (successful or failing) changes the caller's path.                      *)
C4_EmptyPathAndFrame ==
    /\ []((pc = "done" /\ CallerPath = <<>>) => result = Some(Ok(self_ty)))
    /\ [][pc = "loop" => paths'["caller"] = paths["caller"]]_vars

C4_Witness ==
    /\ pc = "done"
    /\ CallerPath = <<>>
    /\ self_ty = TransactionTy
    /\ result = Some(Ok(TransactionTy))


-----------------------------------------------------------------------------
(* Ordered maps.  A BTreeMap / TinyOrdMap keyed by Ident is the sequence   *)
(* of its <<key, value>> entries in key order, which is the order its      *)
(* iterator gives.  Ident's Ord is byte-wise; IdentOrder lists the         *)
(* identifiers of the model in that order.                                 *)

IdentOrder ==
    <<"A", "B", "Bar", "Deep", "Ext", "Foo", "Foo2", "Other", "ext", "std">>

IdentRank(n) == CHOOSE i \in DOMAIN IdentOrder : IdentOrder[i] = n

IdentLess(a, b) == IdentRank(a) < IdentRank(b)

MapKeys(m) == {m[i][1] : i \in DOMAIN m}
MapHas(m, k) == k \in MapKeys(m)
MapGet(m, k) == (CHOOSE e \in Range(m) : e[1] = k)[2]

(* A plausible slip: an insertion-ordered container (a Vec of entries).    *)
BTreeInsert_Push(m, k, v) ==
    LET NotK(e) == e[1] # k
    IN  Append(SelectSeq(m, NotK), <<k, v>>)

(* BTreeMap::insert: the entry replaces one with the same key and sits at  *)
(* the key's place in the order.                                           *)
BTreeInsert(m, k, v) ==
    LET Before(e) == IdentLess(e[1], k)
        After(e) == IdentLess(k, e[1])
    IN  SelectSeq(m, Before) \o <<<<k, v>>>> \o SelectSeq(m, After)

-----------------------------------------------------------------------------
(* The type index: src/src/dtl.rs.  TypeIndex is a map SemId -> TypeName,  *)
(* only read with get and written with insert: a function.                 *)

Children(t) ==
    CASE t.kind \in {"Struct", "Union"} -> [i \in DOMAIN t.fields |-> t.fields[i].ty]
      [] t.kind \in {"Array", "List", "Set", "Map"} -> <<t.ty>>
      [] OTHER -> <<>>

DuplicateName(name) == [kind |-> "DuplicateName", name |-> name]
UnknownId(id) == [kind |-> "UnknownId", id |-> id]
UnknownType(name) == [kind |-> "UnknownType", name |-> name]
UnknownDependency(alias) == [kind |-> "UnknownDependency", name |-> alias]
TooDeep == [kind |-> "TooDeep", name |-> ""]
Confinement == [kind |-> "Confinement", name |-> ""]

IndexOk(idx) == [ok |-> TRUE, index |-> idx]
IndexErr(e) == [ok |-> FALSE, err |-> e]

RECURSIVE StenType_index(_, _), Ty_build_index(_, _), IndexEach(_, _)

(* An index in which the name met last replaces the recorded one.          *)
StenType_index_Overwrite(node, idx) ==
    IF node.name = "" THEN IndexOk(idx)
    ELSE LET id == TyId(node.ty, None)
         IN  Ty_build_index(node.ty, (id :> node.name) @@ idx)

(* StenType::index                                                         *)
StenType_index(node, idx) ==
    IF node.name = "" THEN IndexOk(idx)
    ELSE LET id == TyId(node.ty, None)
         IN  IF id \notin DOMAIN idx
             THEN Ty_build_index(node.ty, (id :> node.name) @@ idx)
             ELSE IF idx[id] # node.name
             THEN IndexErr(DuplicateName(node.name))
             ELSE Ty_build_index(node.ty, idx)

(* `for ty in fields.values() { ty.index(index)?; }`                       *)
IndexEach(nodes, idx) ==
    IF nodes = <<>> THEN IndexOk(idx)
    ELSE LET r == StenType_index(Head(nodes), idx)
         IN  IF r.ok THEN IndexEach(Tail(nodes), r.index) ELSE r

(* Ty<StenType>::build_index                                               *)
Ty_build_index(t, idx) == IndexEach(Children(t), idx)

-----------------------------------------------------------------------------
(* Translation of a type tree onto the reference ladder (spec 4.5, stage   *)
(* 2).  Level k is the k-th form of LadderForms.                           *)

KeyLevel == Len(LadderForms)

RECURSIVE TranslateRef(_, _), TranslateTy(_, _)

TranslateRef(node, level) ==
    IF node.lib # ""
    THEN InlineRefExtern(LadderForms[level], node.name, node.lib, StenType_id(node))
    ELSE IF node.name # ""
    THEN InlineRefNamed(LadderForms[level], node.name, StenType_id(node))
    ELSE IF level = KeyLevel THEN KeyTyPrimitive(node.ty.code)
    ELSE IF level = 1 THEN LibRefInline(TranslateTy(node.ty, 2))
    ELSE InlineRefBuiltin(LadderForms[level], TranslateTy(node.ty, level + 1))

TranslateTy(t, level) ==
    CASE t.kind \in {"Struct", "Union"} ->
            [t EXCEPT !.fields =
                [i \in DOMAIN t.fields |->
                    [t.fields[i] EXCEPT !.ty = TranslateRef(t.fields[i].ty, level)]]]
      [] t.kind \in {"Array", "List", "Set", "Map"} ->
            [t EXCEPT !.ty = TranslateRef(t.ty, level)]
      [] OTHER -> t

(* Whether the translation of t, its children at the given level, fails    *)
(* with TooDeep: an anonymous compound, or a reference, where only a       *)
(* KeyTy fits.                                                             *)
RECURSIVE ExceedsLadder(_, _)
ExceedsLadder(t, level) ==
    \E i \in DOMAIN Children(t) :
        LET c == Children(t)[i]
        IN  IF c.lib # "" THEN level = KeyLevel
            ELSE IF c.name # "" THEN level = KeyLevel \/ ExceedsLadder(c.ty, 1)
            ELSE IF level = KeyLevel THEN c.ty.kind # "Primitive"
            ELSE ExceedsLadder(c.ty, level + 1)

(* The named local types below t, each scheduled for inclusion in types,   *)
(* in the order of the walk.                                               *)
RECURSIVE Scheduled(_), ScheduledEach(_)
ScheduledEach(nodes) ==
    IF nodes = <<>> THEN <<>>
    ELSE LET c == Head(nodes)
             here == IF c.lib # "" THEN <<>>
                     ELSE IF c.name # ""
                     THEN Scheduled(c.ty) \o <<<<c.name, TranslateTy(c.ty, 1)>>>>
                     ELSE Scheduled(c.ty)
         IN  here \o ScheduledEach(Tail(nodes))

Scheduled(t) == ScheduledEach(Children(t))

BuildOk(l) == [ok |-> TRUE, lib |-> l]
BuildErr(e) == [ok |-> FALSE, err |-> e]

(* TranslateContext::build_lib: the scheduled types enter types; two       *)
(* distinct types under one name fail with DuplicateName.                  *)
RECURSIVE build_lib(_, _, _)
build_lib(l, entries, id) ==
    IF entries = <<>> THEN BuildOk([l EXCEPT !.roots = @ \cup {id}])
    ELSE LET e == Head(entries)
         IN  IF MapHas(l.types, e[1]) /\ MapGet(l.types, e[1]) # e[2]
             THEN BuildErr(DuplicateName(e[1]))
             ELSE build_lib([l EXCEPT !.types = BTreeInsert(@, e[1], e[2])],
                            Tail(entries), id)


-----------------------------------------------------------------------------
(* The library and its identifier: src/src/typelib/type_lib.rs and         *)
(* src/src/typelib/id.rs.                                                  *)

Dependency(id, name, ver) == [id |-> id, name |-> name, ver |-> ver]

(* TypeLib { name, dependencies, types }, with the roots of dtl::TypeLib.  *)
TypeLib(name, dependencies, roots, types) ==
    [name |-> name, dependencies |-> dependencies, roots |-> roots, types |-> types]

(* A plausible slip: the dependency commits to its name as well.           *)
Dependency_hash_id_WithName(dep) == <<Item("id", dep.id), Item("str", dep.name)>>

(* impl HashId for Dependency: only the id is fed.                         *)
Dependency_hash_id(dep) == <<Item("id", dep.id)>>

RECURSIVE DepsCommit(_), TypesCommit(_)
DepsCommit(deps) ==
    IF deps = <<>> THEN <<>>
    ELSE Dependency_hash_id(Head(deps)[2]) \o DepsCommit(Tail(deps))

TypesCommit(types) ==
    IF types = <<>> THEN <<>>
    ELSE <<Item("id", TyId(Head(types)[2], Some(Head(types)[1])))>>
         \o TypesCommit(Tail(types))

(* A plausible slip: the library name is left out (as dtl::TypeLib::id,    *)
(* which commits to the roots alone).                                      *)
TypeLib_hash_id_NoName(l) ==
    <<Item("u8", Len(l.dependencies))>> \o DepsCommit(l.dependencies)
    \o <<Item("u16", Len(l.types))>> \o TypesCommit(l.types)

(* impl HashId for TypeLib                                                 *)
TypeLib_hash_id(l) ==
    <<Item("str", l.name)>>
    \o <<Item("u8", Len(l.dependencies))>> \o DepsCommit(l.dependencies)
    \o <<Item("u16", Len(l.types))>> \o TypesCommit(l.types)

(* TypeLib::id                                                             *)
TypeLib_id(l) == TaggedHash(TypeLib_hash_id(l))

-----------------------------------------------------------------------------
(* Library assembly.  A builder state is [phase, lib, index, error].       *)

Builder(ph, l, idx, e) == [phase |-> ph, lib |-> l, index |-> idx, error |-> e]

NewBuilder(name) == Builder("building", TypeLib(name, <<>>, {}, <<>>), <<>>, None)

Failed(st, e) == [st EXCEPT !.phase = "failed", !.error = Some(e)]

(* A dependency is declared under an alias.                                *)
AddDependency(st, alias, dep) ==
    [st EXCEPT !.lib.dependencies = BTreeInsert(@, alias, dep)]

(* A translation that lets the root replace a type of its name.            *)
Transpile_Overwriting(st, root) ==
    LET id == TyId(root.ty, None)
        ix == StenType_index(root, st.index)
    IN  IF ~ix.ok THEN Failed(st, ix.err)
        ELSE IF ExceedsLadder(root.ty, 1) THEN Failed(st, TooDeep)
        ELSE LET rootTy == TranslateTy(root.ty, 1)
                 built == build_lib(st.lib, Scheduled(root.ty), id)
             IN  IF ~built.ok THEN Failed(st, built.err)
                 ELSE IF id \notin DOMAIN ix.index THEN Failed(st, UnknownId(id))
                 ELSE [st EXCEPT
                         !.lib = [built.lib EXCEPT
                                    !.types = BTreeInsert(@, ix.index[id], rootTy)],
                         !.index = ix.index]

(* A translation that enters a root with no indexed name under a name of   *)
(* its own.                                                                *)
Transpile_AnonymousRoot(st, root) ==
    LET id == TyId(root.ty, None)
        ix == StenType_index(root, st.index)
    IN  IF ~ix.ok THEN Failed(st, ix.err)
        ELSE IF ExceedsLadder(root.ty, 1) THEN Failed(st, TooDeep)
        ELSE LET rootTy == TranslateTy(root.ty, 1)
                 built == build_lib(st.lib, Scheduled(root.ty), id)
             IN  IF ~built.ok THEN Failed(st, built.err)
                 ELSE LET name == IF id \in DOMAIN ix.index THEN ix.index[id] ELSE "Other"
                      IN  IF MapHas(built.lib.types, name)
                          THEN Failed(st, DuplicateName(name))
                          ELSE [st EXCEPT
                                  !.lib = [built.lib EXCEPT
                                             !.types = BTreeInsert(@, name, rootTy)],
                                  !.index = ix.index]

(* impl Translate<TypeLib> for StenType, src/src/dtl.rs: the index is      *)
(* built, the root translated, the library built from the scheduled        *)
(* types, and the root inserted under its indexed name.                    *)
Transpile(st, root) ==
    LET id == TyId(root.ty, None)
        ix == StenType_index(root, st.index)
    IN  IF ~ix.ok THEN Failed(st, ix.err)
        ELSE IF ExceedsLadder(root.ty, 1) THEN Failed(st, TooDeep)
        ELSE LET rootTy == TranslateTy(root.ty, 1)
                 built == build_lib(st.lib, Scheduled(root.ty), id)
             IN  IF ~built.ok THEN Failed(st, built.err)
                 ELSE IF id \notin DOMAIN ix.index THEN Failed(st, UnknownId(id))
                 ELSE LET name == ix.index[id]
                      IN  IF MapHas(built.lib.types, name)
                          THEN Failed(st, DuplicateName(name))
                          ELSE [st EXCEPT
                                  !.lib = [built.lib EXCEPT
                                             !.types = BTreeInsert(@, name, rootTy)],
                                  !.index = ix.index]

(* The references held, at any inline depth, by a type.                    *)
RECURSIVE RefsOf(_)
RefsOf(t) ==
    LET cs == Range(Children(t))
    IN  cs \cup UNION {RefsOf(c.ty) : c \in {x \in cs : x.ref \in {"Inline", "Builtin"}}}

LibRefs(l) == UNION {RefsOf(l.types[i][2]) : i \in DOMAIN l.types}

(* A closure check that lets everything through.                           *)
ClosureError_Unchecked(l) == None

(* The closure check (spec 4.5, stage 3): the first Named reference with   *)
(* no target in types, else the first Extern reference whose alias is not  *)
(* declared.                                                               *)
ClosureError(l) ==
    LET named == {r \in LibRefs(l) : r.ref = "Named" /\ ~MapHas(l.types, r.name)}
        extern == {r \in LibRefs(l) : r.ref = "Extern" /\ ~MapHas(l.dependencies, r.alias)}
    IN  IF named # {} THEN Some(UnknownType((CHOOSE r \in named : TRUE).name))
        ELSE IF extern # {} THEN Some(UnknownDependency((CHOOSE r \in extern : TRUE).alias))
        ELSE None

(* The library is closed and frozen (spec 4.5, stages 3 and 4).            *)
Compile(st) ==
    IF st.lib.types = <<>> THEN Failed(st, Confinement)
    ELSE IF ClosureError(st.lib) # None THEN Failed(st, Unwrap(ClosureError(st.lib)))
    ELSE [st EXCEPT !.phase = "frozen"]

(* The contributions of the model.                                         *)
LibNames == {"A", "B"}
Aliases == {"std", "ext"}
DepLabels == {<<"std", 1>>, <<"Other", 2>>}
Dependencies ==
    {Dependency(TaggedHash(<<Item("str", lab[1])>>), lab[1], lab[2]) : lab \in DepLabels}

Anon(t) == Sten("", "", t)
Prim(code) == Anon(Primitive(code))

FooSt == Sten("Foo", "", Struct(<<Field(0, Some("a"), Prim(U8)), Field(1, Some("b"), Prim(U16))>>))
Foo2St == Sten("Foo2", "", FooSt.ty)
FooListSt == Sten("Foo", "", List(Prim(U8), SizingU8))
FooNestSt == Sten("Foo", "", Set(FooSt, SizingU16))
BarSt == Sten("Bar", "", List(FooSt, SizingU16))
ExtSt == Sten("Ext", "", Struct(<<Field(0, Some("x"), Sten("Foo", "std", Primitive(U8))),
                                  Field(1, None, Anon(Set(FooSt, SizingU8)))>>))
AnonSt == Anon(Array(Prim(U8), 32))

RECURSIVE Nest(_, _)
Nest(n, leaf) == IF n = 0 THEN leaf ELSE Anon(List(Nest(n - 1, leaf), SizingU16))

DeepSt == Sten("Deep", "", Nest(KeyLevel - 1, Prim(U8)).ty)
DeeperSt == Sten("Deep", "", Nest(KeyLevel, Prim(U8)).ty)

Roots == {FooSt, Foo2St, FooListSt, FooNestSt, BarSt, ExtSt, AnonSt, DeepSt, DeeperSt}

Apply(st, c) ==
    IF c.op = "dep" THEN AddDependency(st, c.alias, c.dep) ELSE Transpile(st, c.root)

RECURSIVE BuildFrom(_, _)
BuildFrom(st, contribs) ==
    IF contribs = <<>> \/ st.phase # "building" THEN st
    ELSE BuildFrom(Apply(st, Head(contribs)), Tail(contribs))

Current == Builder(phase, lib, index, error)

Becomes(st) ==
    /\ phase' = st.phase
    /\ lib' = st.lib
    /\ index' = st.index
    /\ error' = st.error

LibInit ==
    /\ \E n \in LibNames : lib = NewBuilder(n).lib
    /\ phase = "building"
    /\ index = <<>>
    /\ error = None
    /\ log = <<>>

DoAddDependency ==
    /\ phase = "building"
    /\ Len(log) < MaxContrib
    /\ \E a \in Aliases, d \in Dependencies :
          LET c == [op |-> "dep", alias |-> a, dep |-> d]
          IN  Becomes(Apply(Current, c)) /\ log' = Append(log, c)
    /\ UNCHANGED <<pathVars, refVars, callVars>>

DoTranspile ==
    /\ phase = "building"
    /\ Len(log) < MaxContrib
    /\ \E r \in Roots :
          LET c == [op |-> "root", root |-> r]
          IN  Becomes(Apply(Current, c)) /\ log' = Append(log, c)
    /\ UNCHANGED <<pathVars, refVars, callVars>>

DoCompile ==
    /\ phase = "building"
    /\ Becomes(Compile(Current))
    /\ UNCHANGED <<log, pathVars, refVars, callVars>>

InitLib == PathInit /\ LibInit /\ RefIdle /\ CallIdle

NextLib == DoAddDependency \/ DoTranspile \/ DoCompile

SpecLib == InitLib /\ [][NextLib]_vars


-----------------------------------------------------------------------------
(* Reference values.  The reference forms are Rust types: a value of a     *)
(* form is a leaf of that form, or a type whose children have the form     *)
(* the type parameter names.  The ladder of src/src/typelib/type_lib.rs    *)
(* changes form at each level; InlineRef of src/src/dtl.rs holds           *)
(* Box<Ty<InlineRef>>, its own form.                                       *)

FooId == TyId(FooSt.ty, Some("Foo"))

(* A ladder whose last inline form holds its own form again.               *)
HolderForm_SameForm(f) ==
    CASE f = "KeyTy" -> "InlineRef2"
      [] f = "InlineRef2" -> "InlineRef2"
      [] f = "InlineRef1" -> "InlineRef"
      [] f = "InlineRef" -> "LibRef"
      [] f = "DtlInlineRef" -> "DtlInlineRef"

(* The form of the reference that can hold a type with children of form f. *)
HolderForm(f) ==
    CASE f = "KeyTy" -> "InlineRef2"
      [] f = "InlineRef2" -> "InlineRef1"
      [] f = "InlineRef1" -> "InlineRef"
      [] f = "InlineRef" -> "LibRef"
      [] f = "DtlInlineRef" -> "DtlInlineRef"

CanHold(f) == f \in {"KeyTy", "InlineRef2", "InlineRef1", "InlineRef", "DtlInlineRef"}

(* The reference of form HolderForm(f) holding the type t inline.          *)
Holding(f, t) ==
    CASE f = "DtlInlineRef" -> DtlInline(t)
      [] f = "InlineRef" -> LibRefInline(t)
      [] OTHER -> InlineRefBuiltin(HolderForm(f), t)

RefLeaves ==
    {KeyTyPrimitive(U8), KeyTyPrimitive(U16)}
    \cup {InlineRefNamed(f, "Foo", FooId) : f \in {"InlineRef", "InlineRef1", "InlineRef2"}}
    \cup {InlineRefExtern(f, "Foo", "std", FooId) : f \in {"InlineRef", "InlineRef1", "InlineRef2"}}
    \cup {LibRefNamed("Foo", FooId), LibRefExtern("Foo", "std", FooId)}
    \cup {DtlName("Foo"), DtlInline(Primitive(U8))}
    \cup {InlineRefBuiltin(f, Primitive(U8)) : f \in {"InlineRef", "InlineRef1", "InlineRef2"}}
    \cup {LibRefInline(Primitive(U8))}

Shapes == {"List", "Set", "Array", "Struct"}

Shaped(shape, r) ==
    CASE shape = "List" -> List(r, SizingU16)
      [] shape = "Set" -> Set(r, SizingU8)
      [] shape = "Array" -> Array(r, 32)
      [] shape = "Struct" -> Struct(<<Field(0, Some("a"), r)>>)

(* The number of inline types nested in the reference r.                   *)
RECURSIVE InlineDepth(_)
InlineDepth(r) ==
    IF r.ref \notin {"Inline", "Builtin"} THEN 0
    ELSE LET cs == Range(Children(r.ty))
         IN  IF cs = {} THEN 1
             ELSE 1 + (CHOOSE d \in {InlineDepth(c) : c \in cs} :
                          \A e \in {InlineDepth(c) : c \in cs} : e <= d)

RefLeaf ==
    /\ cur_ref = None
    /\ \E r \in RefLeaves : cur_ref' = Some(r)
    /\ UNCHANGED <<pathVars, libVars, callVars>>

RefWrap ==
    /\ cur_ref # None
    /\ CanHold(Unwrap(cur_ref).form)
    /\ InlineDepth(Unwrap(cur_ref)) < MaxWrap
    /\ \E shape \in Shapes :
          cur_ref' = Some(Holding(Unwrap(cur_ref).form, Shaped(shape, Unwrap(cur_ref))))
    /\ UNCHANGED <<pathVars, libVars, callVars>>

RefDrop ==
    /\ cur_ref # None
    /\ cur_ref' = None
    /\ UNCHANGED <<pathVars, libVars, callVars>>

InitRef == PathInit /\ LibIdle /\ RefIdle /\ CallIdle

NextRef == RefLeaf \/ RefWrap \/ RefDrop

SpecRef == InitRef /\ [][NextRef]_vars

(* The operations of the core, one at a time: a reference value is built   *)
(* while no at_path call is under way, and at_path is called while no      *)
(* reference value is held.                                                *)
NoRefHeld == cur_ref = None

NoCallUnderWay == pc = "idle"

InitCore == PathInit /\ LibIdle /\ RefIdle /\ CallIdle

NextCore ==
    \/ NoRefHeld /\ AtPathCall
    \/ NoRefHeld /\ AtPathStep
    \/ NoRefHeld /\ AtPathReturn
    \/ NoRefHeld /\ AtPathDone
    \/ NoCallUnderWay /\ RefLeaf
    \/ NoCallUnderWay /\ RefWrap
    \/ NoCallUnderWay /\ RefDrop

SpecCore == InitCore /\ [][NextCore]_vars


-----------------------------------------------------------------------------
(* Claims on libraries.                                                    *)

(* The references a library's types mention, collected child by child.     *)
RECURSIVE Mentioned(_)
Mentioned(rs) ==
    IF rs = <<>> THEN {}
    ELSE LET r == Head(rs)
         IN  {r} \cup Mentioned(Tail(rs))
                 \cup (IF r.ref \in {"Inline", "Builtin"}
                       THEN Mentioned(Children(r.ty)) ELSE {})

MentionedIn(l) == UNION {Mentioned(Children(l.types[i][2])) : i \in DOMAIN l.types}

(* C5: in a frozen library every Named reference inside the values of      *)
(* types has its name among the keys of types, and every Extern reference  *)
(* has its alias among the keys of dependencies.                           *)
C5_LibraryClosure ==
    phase = "frozen" =>
        \A r \in MentionedIn(lib) :
            /\ r.ref = "Named" => \E i \in DOMAIN lib.types : lib.types[i][1] = r.name
            /\ r.ref = "Extern" =>
                  \E i \in DOMAIN lib.dependencies : lib.dependencies[i][1] = r.alias

(* A frozen library that mentions a Named and an Extern reference, the     *)
(* Named one below an inline type.                                         *)
C5_Witness ==
    /\ phase = "frozen"
    /\ \E r \in MentionedIn(lib) : r.ref = "Extern"
    /\ \E r \in MentionedIn(lib) : r.ref = "Named" /\ r.form # "LibRef"

(* The same contributions in another order, and under the other aliases.   *)
Transpositions(s) ==
    {[i \in DOMAIN s |-> IF i = k THEN s[k + 1] ELSE IF i = k + 1 THEN s[k] ELSE s[i]] :
        k \in 1..(Len(s) - 1)}

OtherAlias(a) == IF a = "std" THEN "ext" ELSE "std"

Realiased(s) ==
    [i \in DOMAIN s |->
        IF s[i].op = "dep" THEN [s[i] EXCEPT !.alias = OtherAlias(@)] ELSE s[i]]

Reorderings(s) == {s} \cup Transpositions(s)

Variants(s) == Reorderings(s) \cup {Realiased(t) : t \in Reorderings(s)}

Rebuilt(name, s) == Compile(BuildFrom(NewBuilder(name), s))

TypeEntries(l) == Range(l.types)
DepIds(l) == {e[2].id : e \in Range(l.dependencies)}
DepIdsByAlias(l) == {<<e[1], e[2].id>> : e \in Range(l.dependencies)}

(* C7 as stated: two libraries with the same name, the same set of (type   *)
(* name, type structure) entries and the same set of dependency LibIds     *)
(* have the same LibId, whatever the order of the contributions.           *)
C7_SameDependencyIdSet ==
    phase = "frozen" =>
        \A s \in Variants(log) :
            LET o == Rebuilt(lib.name, s)
            IN  (/\ o.phase = "frozen"
                 /\ TypeEntries(o.lib) = TypeEntries(lib)
                 /\ DepIds(o.lib) = DepIds(lib))
                => TypeLib_id(o.lib) = TypeLib_id(lib)

(* C7 amended: two libraries with the same name, the same set of (type     *)
(* name, type structure) entries and the same LibId under each dependency  *)
(* alias have the same LibId, whatever the order of the contributions.     *)
C7_SameDependencyIdByAlias ==
    phase = "frozen" =>
        \A s \in Variants(log) :
            LET o == Rebuilt(lib.name, s)
            IN  (/\ o.phase = "frozen"
                 /\ TypeEntries(o.lib) = TypeEntries(lib)
                 /\ DepIdsByAlias(o.lib) = DepIdsByAlias(lib))
                => TypeLib_id(o.lib) = TypeLib_id(lib)

(* A frozen library of two types and a dependency whose contributions,     *)
(* taken in another order, freeze to the same content.                     *)
C7_Witness ==
    /\ phase = "frozen"
    /\ Len(lib.types) >= 2
    /\ lib.dependencies # <<>>
    /\ \E s \in Transpositions(log) :
          /\ s # log
          /\ s[1].op # log[1].op
          /\ Rebuilt(lib.name, s).phase = "frozen"
          /\ TypeEntries(Rebuilt(lib.name, s).lib) = TypeEntries(lib)
          /\ DepIdsByAlias(Rebuilt(lib.name, s).lib) = DepIdsByAlias(lib)

Relabelled(l, alias, lab) ==
    [l EXCEPT !.dependencies =
        BTreeInsert(l.dependencies, alias,
                    Dependency(MapGet(l.dependencies, alias).id, lab[1], lab[2]))]

(* C8: the LibId of a library is unchanged when only the name or the       *)
(* version label of one of its dependencies changes.                       *)
C8_DependencyLabelNotCommitted ==
    phase = "frozen" =>
        \A a \in MapKeys(lib.dependencies), lab \in DepLabels :
            TypeLib_id(Relabelled(lib, a, lab)) = TypeLib_id(lib)

(* A frozen library with a dependency that has another label to take.      *)
C8_Witness ==
    /\ phase = "frozen"
    /\ \E a \in MapKeys(lib.dependencies), lab \in DepLabels :
          /\ Relabelled(lib, a, lab) # lib
          /\ Relabelled(lib, a, lab).types = lib.types

FooOnly == <<[op |-> "root", root |-> FooSt]>>

SemIdOf(l, name) == TyId(MapGet(l.types, name), Some(name))

(* C9: the libraries A and B that each hold the single type                *)
(* Foo = Struct{a: U8, b: U16} give Foo the same SemId and have different  *)
(* LibIds.                                                                 *)
C9_SameSemIdOtherLibId ==
    (phase = "frozen" /\ log = FooOnly) =>
        \A n \in LibNames \ {lib.name} :
            LET o == Rebuilt(n, log)
            IN  /\ o.phase = "frozen"
                /\ MapKeys(o.lib.types) = {"Foo"}
                /\ SemIdOf(o.lib, "Foo") = SemIdOf(lib, "Foo")
                /\ SemIdOf(lib, "Foo") = StenType_id(FooSt)
                /\ TypeLib_id(o.lib) # TypeLib_id(lib)

(* Library A frozen with the single type Foo.                              *)
C9_Witness ==
    /\ phase = "frozen"
    /\ log = FooOnly
    /\ lib.name = "A"
    /\ MapKeys(lib.types) = {"Foo"}
    /\ MapGet(lib.types, "Foo").kind = "Struct"

-----------------------------------------------------------------------------
(* Claims on reference values.                                             *)

(* The inline types of the ladder LibRef::Inline, InlineRef, InlineRef1,   *)
(* InlineRef2, the last holding KeyTy leaves.                              *)
LadderDepth == Len(LadderForms) - 1

(* C6: no reference value holds a chain of nested inline types deeper      *)
(* than the ladder.                                                        *)
C6_DepthBound ==
    cur_ref # None => InlineDepth(Unwrap(cur_ref)) <= LadderDepth

-----------------------------------------------------------------------------
(* Value operations: src/src/util.rs (Sizing, Ident) and                   *)
(* src/src/dtl/gravel.rs (NestedRef for GravelTy).  A call ends with a     *)
(* value, an error value or a panic.                                       *)

Value(v) == [kind |-> "value", val |-> v]
ErrorValue(e) == [kind |-> "error", err |-> e]
Panic(msg) == [kind |-> "panic", msg |-> msg]

Called(op, input, out) == Some([op |-> op, input |-> input, out |-> out])

(* Sizing: the constants and constructors besides Sizing::new, U8 and U16. *)
SizingONE == SizingNew(1, 1)
SizingU8_NONEMPTY == SizingNew(1, U8_MAX)
SizingU16_NONEMPTY == SizingNew(1, U16_MAX)
SizingFixed(len) == SizingNew(len, len)

SizingConsts ==
    {<<"ONE", SizingONE>>, <<"U8", SizingU8>>, <<"U16", SizingU16>>,
     <<"U8_NONEMPTY", SizingU8_NONEMPTY>>, <<"U16_NONEMPTY", SizingU16_NONEMPTY>>}

(* The u16 arguments of the model.                                         *)
U16Values == {0, 1, 2, U8_MAX, U16_MAX}

CallSizingConst ==
    /\ \E c \in SizingConsts : call' = Called("Sizing::const", c[1], Value(c[2]))
    /\ UNCHANGED <<pathVars, libVars, refVars>>

CallSizingNew ==
    /\ \E min \in U16Values, max \in U16Values :
          call' = Called("Sizing::new", <<min, max>>, Value(SizingNew(min, max)))
    /\ UNCHANGED <<pathVars, libVars, refVars>>

CallSizingFixed ==
    /\ \E len \in U16Values :
          call' = Called("Sizing::fixed", <<len>>, Value(SizingFixed(len)))
    /\ UNCHANGED <<pathVars, libVars, refVars>>


(* Ident: src/src/util.rs.  An ASCII string is a sequence of characters.   *)

IdentMaxLen == 32

Letters == {"a", "Z", "A", "u", "t", "o", "F"}
Digits == {"0", "7"}
IsAlphabetic(ch) == ch \in Letters
IsAsciiAlphanumeric(ch) == ch \in Letters \cup Digits

(* The characters the model draws strings from: a letter of each case, a   *)
(* digit, the underscore, a dash.                                          *)
Chars == {"a", "Z", "7", "_", "-"}

(* p continued with the letter a up to the length n.                       *)
Padded(p, n) == [i \in 1..n |-> IF i <= Len(p) THEN p[i] ELSE "a"]

ShortStrings == SeqsUpTo(Chars, 2)

AsciiStrings ==
    ShortStrings
    \cup {Padded(p, n) : p \in ShortStrings, n \in {IdentMaxLen, IdentMaxLen + 1}}

Ident(str) == [ident |-> str]

Empty == [kind |-> "Empty"]
NonAlphabetic(ch) == [kind |-> "NonAlphabetic", ch |-> ch]
InvalidChar(ch) == [kind |-> "InvalidChar", ch |-> ch]
IdentConfinement == [kind |-> "Confinement"]

(* Confined::<AsciiString, 1, 32>::try_from                                *)
ConfinedOk(str) == Len(str) >= 1 /\ Len(str) <= IdentMaxLen

(* impl TryFrom<AsciiString> for Ident                                     *)
Ident_try_from(ascii) ==
    IF ascii = <<>> THEN ErrorValue(Empty)
    ELSE IF ~IsAlphabetic(ascii[1]) THEN ErrorValue(NonAlphabetic(ascii[1]))
    ELSE LET bad == {i \in DOMAIN ascii :
                        ~IsAsciiAlphanumeric(ascii[i]) /\ ascii[i] # "_"}
         IN  IF bad # {}
             THEN ErrorValue(InvalidChar(ascii[CHOOSE i \in bad : \A j \in bad : i <= j]))
             ELSE IF ~ConfinedOk(ascii) THEN ErrorValue(IdentConfinement)
             ELSE Value(Ident(ascii))

(* impl From<&'static str> for Ident: the result is expected.              *)
Ident_from_str(str) ==
    IF Ident_try_from(str).kind = "value" THEN Ident_try_from(str)
    ELSE Panic("invalid identifier name")

(* The first eight hex digits of an id, and char::to_uppercase on them.    *)
HexDigits == {"0", "7", "a", "f"}
HexPrefixes ==
    {[i \in 1..8 |-> c] : c \in HexDigits}
    \cup {[i \in 1..8 |-> IF i % 2 = 1 THEN "7" ELSE "f"]}

(* The ids Ident::from is called on, each as the 64 digits of to_hex(): a  *)
(* prefix of four bytes and the same digit for the other 28 bytes.         *)
SemIdHexes ==
    {[i \in 1..64 |-> IF i <= 8 THEN p[i] ELSE c] : p \in HexPrefixes, c \in {"0", "f"}}

ToUppercase(ch) == CASE ch = "a" -> "A" [] ch = "f" -> "F" [] OTHER -> ch

(* A conversion that takes all the digits of the id.                       *)
Ident_from_SemId_AllDigits(hex) ==
    LET str == <<"A", "u", "t", "o">> \o [i \in DOMAIN hex |-> ToUppercase(hex[i])]
    IN  IF Ident_try_from(str).kind = "value" THEN Ident_try_from(str)
        ELSE Panic("invalid identifier name")

(* impl From<SemId> for Ident: "Auto" and the upper-cased hex prefix.      *)
Ident_from_SemId(hex) ==
    LET str == <<"A", "u", "t", "o">> \o [i \in 1..8 |-> ToUppercase(hex[i])]
    IN  IF Ident_try_from(str).kind = "value" THEN Ident_try_from(str)
        ELSE Panic("invalid identifier name")

(* Wrapper::from_inner, derived for Ident(Confined<AsciiString, 1, 32>):   *)
(* the confined string becomes the Ident as it is.                         *)
Ident_from_inner(confined) == Value(Ident(confined))

CallIdentTryFrom ==
    /\ \E str \in AsciiStrings :
          call' = Called("Ident::try_from", str, Ident_try_from(str))
    /\ UNCHANGED <<pathVars, libVars, refVars>>

CallIdentFromStr ==
    /\ \E str \in AsciiStrings :
          call' = Called("Ident::from(&str)", str, Ident_from_str(str))
    /\ UNCHANGED <<pathVars, libVars, refVars>>

CallIdentFromSemId ==
    /\ \E hex \in SemIdHexes :
          call' = Called("Ident::from(SemId)", hex, Ident_from_SemId(hex))
    /\ UNCHANGED <<pathVars, libVars, refVars>>

CallIdentFromInner ==
    /\ \E str \in {a \in AsciiStrings : ConfinedOk(a)} :
          call' = Called("Ident::from_inner", str, Ident_from_inner(str))
    /\ UNCHANGED <<pathVars, libVars, refVars>>


(* The textual form of identifiers: src/src/typelib/id.rs.  A string is    *)
(* the sequence of its components and delimiters, each an item; the        *)
(* Baid58 text of an id is its mnemonic, "_" and its base58 payload        *)
(* (LIB_ID_STD in src/src/stl.rs), after "stl" and ":" when it carries the *)
(* human-readable identifier.                                              *)

HRI == "stl"

Identifiers == {FooId, TyId(UNIT, None), TypeLib_id(NewBuilder("A").lib)}

Hri(str) == Item("word", str)
Colon == Item("delim", ":")
Lodash == Item("delim", "_")
Base58(id) == Item("base58", id)
Mnemonic(id) == Item("mnemonic", Sha256(<<Item("id", id)>>))

(* format!("{:+}", self.to_baid58()): mnemonic and payload.                *)
to_baid58_string(id) == <<Mnemonic(id), Lodash, Base58(id)>>

Baid58ParseError(why) == [kind |-> "Baid58ParseError", why |-> why]

(* FromBaid58::from_baid58_str: an optional human-readable identifier,     *)
(* which must be HRI, an optional mnemonic, which must be the payload's,   *)
(* and the payload.                                                        *)
from_baid58_str(str) ==
    LET hasHri == Len(str) >= 2 /\ str[1][1] = "word" /\ str[2] = Colon
        rest == IF hasHri THEN SubSeq(str, 3, Len(str)) ELSE str
        hasMnemonic == Len(rest) = 3 /\ rest[1][1] = "mnemonic" /\ rest[2] = Lodash
        payload == IF hasMnemonic THEN rest[3] ELSE IF Len(rest) = 1 THEN rest[1] ELSE Item("none", "")
    IN  IF hasHri /\ str[1] # Hri(HRI) THEN ErrorValue(Baid58ParseError("hri"))
        ELSE IF payload[1] # "base58" THEN ErrorValue(Baid58ParseError("value"))
        ELSE IF hasMnemonic /\ rest[1] # Mnemonic(payload[2])
        THEN ErrorValue(Baid58ParseError("mnemonic"))
        ELSE Value(payload[2])

(* s.starts_with("stl"): no mnemonic starts so, and base58 has no 'l'.     *)
StartsWithStl(str) == str # <<>> /\ str[1] = Hri("stl")

(* A from_str that puts the prefix before every string.                    *)
from_str_AlwaysPrefixed(str) == from_baid58_str(<<Hri("stl"), Colon>> \o str)

(* impl FromStr for TypeLibId                                              *)
from_str(str) ==
    IF StartsWithStl(str) THEN from_baid58_str(str)
    ELSE from_baid58_str(<<Hri("stl"), Colon>> \o str)

(* The strings given to from_str: the renderings, bare and prefixed, bare  *)
(* payloads, a foreign prefix, a foreign mnemonic, the empty string.       *)
IdStrings ==
    {to_baid58_string(id) : id \in Identifiers}
    \cup {<<Hri("stl"), Colon>> \o to_baid58_string(id) : id \in Identifiers}
    \cup {<<Base58(id)>> : id \in Identifiers}
    \cup {<<Hri("stl"), Colon, Base58(id)>> : id \in Identifiers}
    \cup {<<Hri("urn"), Colon>> \o to_baid58_string(id) : id \in Identifiers}
    \cup {<<Mnemonic(a), Lodash, Base58(b)>> : a \in Identifiers, b \in Identifiers}
    \cup {<<>>}

CallToString ==
    /\ \E id \in Identifiers : call' = Called("to_string", id, Value(to_baid58_string(id)))
    /\ UNCHANGED <<pathVars, libVars, refVars>>

CallFromStr ==
    /\ \E str \in IdStrings : call' = Called("from_str", str, from_str(str))
    /\ UNCHANGED <<pathVars, libVars, refVars>>


(* GravelTy and its NestedRef: src/src/dtl/gravel.rs.                      *)

GravelName(name) == [form |-> "GravelTy", ref |-> "Name", name |-> name]
GravelInline(t) == [form |-> "GravelTy", ref |-> "Inline", ty |-> t]
GravelExtern(name, alias) ==
    [form |-> "GravelTy", ref |-> "Extern", name |-> name, alias |-> alias]

GravelRefs ==
    {GravelName("Foo"), GravelExtern("Foo", "std"),
     GravelInline(Primitive(U8)), GravelInline(UNIT),
     GravelInline(List(GravelName("Foo"), SizingU16)),
     GravelInline(Struct(<<Field(0, Some("a"), GravelInline(Primitive(U16)))>>))}

(* NestedRef::into_ty                                                      *)
into_ty(r) == IF r.ref = "Inline" THEN r.ty ELSE UNIT

(* NestedRef::about: todo!()                                               *)
about(r) == Panic("not yet implemented")

CallAsTy ==
    /\ \E r \in GravelRefs : call' = Called("as_ty", r, Value(as_ty(r)))
    /\ UNCHANGED <<pathVars, libVars, refVars>>

CallIntoTy ==
    /\ \E r \in GravelRefs : call' = Called("into_ty", r, Value(into_ty(r)))
    /\ UNCHANGED <<pathVars, libVars, refVars>>

CallAbout ==
    /\ \E r \in GravelRefs : call' = Called("about", r, about(r))
    /\ UNCHANGED <<pathVars, libVars, refVars>>

InitCall == PathInit /\ LibIdle /\ RefIdle /\ CallIdle

NextCall ==
    \/ CallSizingConst \/ CallSizingNew \/ CallSizingFixed
    \/ CallIdentTryFrom \/ CallIdentFromStr \/ CallIdentFromSemId \/ CallIdentFromInner
    \/ CallToString \/ CallFromStr
    \/ CallAsTy \/ CallIntoTy \/ CallAbout

SpecCall == InitCall /\ [][NextCall]_vars

-----------------------------------------------------------------------------
(* Claims on the value operations.                                         *)

LastCall == Unwrap(call)

(* C11: every Sizing value obtained from the constants, Sizing::new and    *)
(* Sizing::fixed has min <= max.                                           *)
C11_SizingMinLeMax ==
    (call # None /\ LastCall.op \in {"Sizing::const", "Sizing::new", "Sizing::fixed"}) =>
        LastCall.out.val.min <= LastCall.out.val.max

(* The rules of an identifier, read off the string.                        *)
WellFormedIdent(str) ==
    /\ Len(str) \in 1..32
    /\ str[1] \in Letters
    /\ \A i \in 2..Len(str) : str[i] \in Letters \cup Digits \cup {"_"}

(* C12: Ident::try_from returns an Ident exactly for the strings of 1 to   *)
(* 32 characters that start with a letter and go on with letters, digits   *)
(* and '_', an InvalidIdent error for every other string, and no Ident     *)
(* breaks these rules.                                                     *)
C12_IdentRules ==
    call # None =>
        /\ LastCall.op = "Ident::try_from" =>
              /\ LastCall.out.kind = "value" <=> WellFormedIdent(LastCall.input)
              /\ LastCall.out.kind # "value" =>
                    /\ LastCall.out.kind = "error"
                    /\ LastCall.out.err.kind \in
                          {"Empty", "NonAlphabetic", "InvalidChar", "Confinement"}
        /\ (LastCall.op \in {"Ident::try_from", "Ident::from(&str)",
                             "Ident::from(SemId)", "Ident::from_inner"}
            /\ LastCall.out.kind = "value")
           => WellFormedIdent(LastCall.out.val.ident)

(* The inputs the operations are specified for: every input, but for       *)
(* Ident::from(&'static str) the strings that are identifiers.             *)
WellFormedInput ==
    LastCall.op = "Ident::from(&str)" => WellFormedIdent(LastCall.input)

(* C16: no operation panics on well-formed input: each returns a value or  *)
(* an error value.                                                         *)
C16_NoPanic ==
    (call # None /\ WellFormedInput) => LastCall.out.kind \in {"value", "error"}


-----------------------------------------------------------------------------
(* The textual rendering of a library: impl Display for TypeLib,           *)
(* src/src/typelib/type_lib.rs.  A text is the sequence of the pieces      *)
(* written, each an item <<kind, payload>>; "nl" is the line end.          *)

Text(str) == Item("text", str)
Nl == Item("nl", "")

(* `{:16}`: the name, padded on the right to 16 columns.                   *)
Pad16(name) == Item("pad16", name)

(* impl Display for Dependency: "typelib {name}@{ver} {id:#}"              *)
Display_Dependency(dep) ==
    <<Text("typelib"), Item("name", dep.name), Text("@"), Item("ver", dep.ver),
      Item("id#", dep.id)>>

RECURSIVE Display_Dependencies(_)
Display_Dependencies(deps) ==
    IF deps = <<>> THEN <<>>
    ELSE LET alias == Head(deps)[1]
             dep == Head(deps)[2]
         IN  (IF alias # dep.name
              THEN Display_Dependency(dep) \o <<Text("as"), Item("name", alias), Nl>>
              ELSE Display_Dependency(dep))
             \o Display_Dependencies(Tail(deps))

RECURSIVE Display_Types(_)
Display_Types(types) ==
    IF types = <<>> THEN <<>>
    ELSE <<Text("data"), Pad16(Head(types)[1]), Text("::"), Item("ty", Head(types)[2]), Nl>>
         \o Display_Types(Tail(types))

(* impl Display for TypeLib                                                *)
Display_TypeLib(l) ==
    <<Text("typemod"), Item("name", l.name), Nl>>
    \o <<Nl>>
    \o Display_Dependencies(l.dependencies)
    \o (IF l.dependencies = <<>> THEN <<Text("-- no dependencies"), Nl>> ELSE <<>>)
    \o <<Nl>>
    \o Display_Types(l.types)

(* The lines of types in the order of the type names.                      *)
RECURSIVE DataLines(_, _)
DataLines(l, names) ==
    IF names = {} THEN <<>>
    ELSE LET n == CHOOSE a \in names : \A b \in names : IdentRank(a) <= IdentRank(b)
         IN  <<Text("data"), Pad16(n), Text("::"), Item("ty", MapGet(l.types, n)), Nl>>
             \o DataLines(l, names \ {n})

(* C13: the rendering of a compiled library without dependencies is the    *)
(* line 'typelib <LibName> -- <LibId text>', an empty line, the line       *)
(* '-- no dependencies', an empty line, then one line                      *)
(* 'data <TypeName padded to 16> :: <type>' per type in type-name order.   *)
C13_RenderingNoDependencies ==
    (phase = "frozen" /\ lib.dependencies = <<>>) =>
        Display_TypeLib(lib) =
            <<Text("typelib"), Item("name", lib.name), Text("--"),
              Item("id", TypeLib_id(lib)), Nl>>
            \o <<Nl>>
            \o <<Text("-- no dependencies"), Nl>>
            \o <<Nl>>
            \o DataLines(lib, MapKeys(lib.types))


-----------------------------------------------------------------------------
(* Claims on library assembly and the index.                               *)

(* The named nodes of this library in a type tree, each with its type.     *)
RECURSIVE NamedNodes(_)
NamedNodes(node) ==
    (IF node.name # "" /\ node.lib = "" THEN {<<node.name, node.ty>>} ELSE {})
    \cup UNION {NamedNodes(c) : c \in Range(Children(node.ty))}

Contributed == UNION {NamedNodes(log[i].root) : i \in {j \in DOMAIN log : log[j].op = "root"}}

(* The names that two structurally distinct contributed types carry.       *)
Clashing == {a[1] : a \in {x \in Contributed : \E y \in Contributed : y[1] = x[1] /\ y[2] # x[2]}}

(* C15: building a library from contributions in which two structurally    *)
(* distinct types carry the same name fails with DuplicateName of that     *)
(* name, and no library is produced.                                       *)
C15_DuplicateName ==
    Clashing # {} =>
        /\ phase = "failed"
        /\ \E n \in Clashing : error = Some(DuplicateName(n))

(* A root that is given its own child's name, and one that clashes with a  *)
(* type contributed before.                                                *)
C15_Witness ==
    /\ phase = "failed"
    /\ Clashing = {"Foo"}
    /\ error = Some(DuplicateName("Foo"))
    /\ Len(log) = 2
    /\ log[1].op = "root"
    /\ log[2] = [op |-> "root", root |-> FooListSt]


(* Whether the shape of t admits the step.                                 *)
Admits(t, step) ==
    \/ /\ t.kind \in {"Struct", "Union"}
       /\ step.step = "NamedField"
       /\ \E i \in DOMAIN t.fields : t.fields[i].name = Some(step.name)
    \/ /\ t.kind \in {"Struct", "Union"}
       /\ step.step = "UnnamedField"
       /\ \E i \in DOMAIN t.fields : t.fields[i].ord = step.ord
    \/ t.kind = "Array" /\ step.step = "Index"
    \/ t.kind = "List" /\ step.step = "List"
    \/ t.kind = "Set" /\ step.step = "Set"
    \/ t.kind = "Map" /\ step.step = "Map"

-----------------------------------------------------------------------------
(* Claims on termination.                                                  *)

(* The nested calls of id() on the reference r: one per inline type below  *)
(* it, and its own.                                                        *)
RECURSIVE IdCalls(_)
IdCalls(r) ==
    IF r.ref \notin {"Inline", "Builtin"} THEN 1
    ELSE 1 + (IF Children(r.ty) = <<>> THEN 0
              ELSE LET ds == {IdCalls(c) : c \in Range(Children(r.ty))}
                   IN  CHOOSE d \in ds : \A e \in ds : e <= d)

(* C17: id() of a reference of the ladder ends after at most four nested   *)
(* inline levels, and at_path after at most as many iterations as the      *)
(* path has steps: the iterations made and the steps left add up to the    *)
(* path's length.                                                          *)
C17_Termination ==
    /\ (cur_ref # None /\ Unwrap(cur_ref).form \in Range(LadderForms)) =>
          /\ IdCalls(Unwrap(cur_ref)) <= Len(LadderForms)
          /\ InlineDepth(Unwrap(cur_ref)) <= LadderDepth
    /\ pc \in {"loop", "done"} =>
          /\ Len(path_so_far) + Len(paths[path_ref]) = Len(CallerPath)
          /\ Len(path_so_far) <= Len(CallerPath)

(* A reference of the top form holding four nested inline types.           *)
C17_Witness ==
    /\ cur_ref # None
    /\ Unwrap(cur_ref).form = "LibRef"
    /\ InlineDepth(Unwrap(cur_ref)) = LadderDepth
    /\ IdCalls(Unwrap(cur_ref)) = 5


-----------------------------------------------------------------------------
(* Claims on the index.                                                    *)

(* The nodes reachable from a node through any chain of children, itself   *)
(* included.                                                               *)
RECURSIVE Reachable(_)
Reachable(node) ==
    {node} \cup UNION {Reachable(c) : c \in Range(Children(node.ty))}

LastRoot == log[Len(log)].root

Transpiled == phase = "building" /\ log # <<>> /\ log[Len(log)].op = "root"

(* C19: after a successful index build on a root, every named node         *)
(* reachable from it through any chain of children, below anonymous nodes  *)
(* too, has its id mapped to its name in the index, and every entry of     *)
(* the index is the id and the name of a named node.                       *)
C19_IndexCoversNamedNodes ==
    Transpiled =>
        /\ \A n \in Reachable(LastRoot) :
              n.name # "" =>
                  /\ TyId(n.ty, None) \in DOMAIN index
                  /\ index[TyId(n.ty, None)] = n.name
        /\ \A id \in DOMAIN index :
              \E i \in DOMAIN log :
                  /\ log[i].op = "root"
                  /\ \E n \in Reachable(log[i].root) :
                        n.name # "" /\ TyId(n.ty, None) = id /\ n.name = index[id]


(* The nodes the builder can meet.                                         *)
Nodes == UNION {Reachable(r) : r \in Roots}

(* What meeting a named node does to the index held.                       *)
MeetingKeepsEntries ==
    \A n \in Nodes :
        n.name # "" =>
            LET id == TyId(n.ty, None)
                r == StenType_index(n, index)
            IN  /\ (id \in DOMAIN index /\ index[id] # n.name) =>
                      r = IndexErr(DuplicateName(n.name))
                /\ (id \in DOMAIN index /\ index[id] = n.name) =>
                      r = IndexEach(Children(n.ty), index)
                /\ r.ok =>
                      /\ id \in DOMAIN r.index
                      /\ r.index[id] = n.name
                      /\ \A k \in DOMAIN index :
                            k \in DOMAIN r.index /\ r.index[k] = index[k]
                      /\ \A c \in Range(Children(n.ty)) :
                            c.name # "" =>
                                /\ TyId(c.ty, None) \in DOMAIN r.index
                                /\ r.index[TyId(c.ty, None)] = c.name

(* C20: meeting a named node whose id is in the index fails with           *)
(* DuplicateName exactly when the recorded name differs; with the same     *)
(* name the entry stays and the walk goes on into the children; no step    *)
(* of the builder overwrites an entry.                                     *)
C20_IndexEntriesKept ==
    /\ [](phase = "building" => MeetingKeepsEntries)
    /\ [][\A k \in DOMAIN index : k \in DOMAIN index' /\ index'[k] = index[k]]_vars

(* Foo is contributed, then a list of Foo: Foo is met again under the      *)
(* name recorded, and the build goes on.                                   *)
C20_Witness ==
    /\ phase = "building"
    /\ Len(log) = 2
    /\ log[1] = [op |-> "root", root |-> FooSt]
    /\ log[2] = [op |-> "root", root |-> BarSt]
    /\ index[TyId(FooSt.ty, None)] = "Foo"
    /\ index[TyId(BarSt.ty, None)] = "Bar"


-----------------------------------------------------------------------------
(* Claims on the rendering of dependencies and of types.                   *)

(* One line per dependency in the order of the aliases: the dependency's   *)
(* rendering, ' as <alias>' when the alias is not the dependency's name,   *)
(* and the line end.                                                       *)
RECURSIVE DependencyLines(_, _)
DependencyLines(l, aliases) ==
    IF aliases = {} THEN <<>>
    ELSE LET a == CHOOSE x \in aliases : \A y \in aliases : IdentRank(x) <= IdentRank(y)
             dep == MapGet(l.dependencies, a)
         IN  Display_Dependency(dep)
             \o (IF a # dep.name THEN <<Text("as"), Item("name", a)>> ELSE <<>>)
             \o <<Nl>>
             \o DependencyLines(l, aliases \ {a})

(* C21: after the first line and the empty line, the rendering of a        *)
(* library has one line per declared dependency in alias order, the line   *)
(* '-- no dependencies' exactly when there is none, then one empty line    *)
(* and the 'data' lines.                                                   *)
C21_DependencySection ==
    phase \in {"building", "frozen"} =>
        Display_TypeLib(lib) =
            <<Text("typemod"), Item("name", lib.name), Nl>>
            \o <<Nl>>
            \o DependencyLines(lib, MapKeys(lib.dependencies))
            \o (IF MapKeys(lib.dependencies) = {} THEN <<Text("-- no dependencies"), Nl>> ELSE <<>>)
            \o <<Nl>>
            \o Display_Types(lib.types)


(* Ty::is_compound (spec 4.1)                                              *)
is_compound(t) == t.kind \in {"Struct", "Union", "Array", "List", "Set", "Map"}

RECURSIVE Display_Ref(_), Display_Ty(_), Display_Fields(_, _)

(* impl Display for LibRef, InlineRef, InlineRef1, InlineRef2              *)
(* (typelib/type_lib.rs) and for the InlineRef of dtl.rs.                  *)
Display_Ref(r) ==
    CASE r.ref = "Named" -> <<Item("name", r.name)>>
      [] r.ref = "Name" -> <<Item("name", r.name)>>
      [] r.ref = "Extern" -> <<Item("name", r.alias), Text("."), Item("name", r.name)>>
      [] r.ref = "Primitive" -> <<Item("code", r.code)>>
      [] r.ref = "Inline" ->
            IF is_compound(r.ty)
            THEN <<Text("(")>> \o Display_Ty(r.ty) \o <<Text(")")>>
            ELSE Display_Ty(r.ty)
      [] r.ref = "Builtin" -> Display_Ty(r.ty)

Display_Fields(fields, sep) ==
    IF fields = <<>> THEN <<>>
    ELSE <<Item("field", Head(fields).name), Text(":")>> \o Display_Ref(Head(fields).ty)
         \o (IF Tail(fields) = <<>> THEN <<>> ELSE <<Text(sep)>>)
         \o Display_Fields(Tail(fields), sep)

(* impl Display for Ty (spec 6.1, type rendering)                          *)
Display_Ty(t) ==
    CASE t.kind = "Primitive" -> <<Item("code", t.code)>>
      [] t.kind = "Struct" -> <<Text("{")>> \o Display_Fields(t.fields, ",") \o <<Text("}")>>
      [] t.kind = "Union" -> <<Text("{")>> \o Display_Fields(t.fields, "|") \o <<Text("}")>>
      [] t.kind = "Array" ->
            Display_Ref(t.ty) \o <<Text("["), Item("len", t.len), Text("]")>>
      [] t.kind = "List" ->
            <<Text("[")>> \o Display_Ref(t.ty) \o <<Text("]"), Item("sizing", t.sizing)>>
      [] t.kind = "Set" ->
            <<Text("{")>> \o Display_Ref(t.ty) \o <<Text("}"), Item("sizing", t.sizing)>>
      [] t.kind = "Map" ->
            <<Text("{")>> \o Display_Ref(t.key) \o <<Text("}"), Text("->")>>
            \o Display_Ref(t.ty) \o <<Item("sizing", t.sizing)>>

(* The forms of the ladder that hold references.                           *)
RefForms == {"LibRef", "InlineRef", "InlineRef1", "InlineRef2"}

(* C22: at every level of the ladder a Named reference prints its name,    *)
(* an Extern reference 'alias.name', an inline reference to a compound     *)
(* type the type inside parentheses and an inline reference to another     *)
(* type the type without parentheses.                                      *)
C22_ReferenceRendering ==
    (cur_ref # None /\ Unwrap(cur_ref).form \in RefForms) =>
        LET r == Unwrap(cur_ref)
        IN  /\ r.ref = "Named" => Display_Ref(r) = <<Item("name", r.name)>>
            /\ r.ref = "Extern" =>
                  Display_Ref(r) = <<Item("name", r.alias), Text("."), Item("name", r.name)>>
            /\ (r.ref \in {"Inline", "Builtin"} /\ is_compound(r.ty)) =>
                  Display_Ref(r) = <<Text("(")>> \o Display_Ty(r.ty) \o <<Text(")")>>
            /\ (r.ref \in {"Inline", "Builtin"} /\ ~is_compound(r.ty)) =>
                  Display_Ref(r) = Display_Ty(r.ty)


-----------------------------------------------------------------------------
(* Claims on the identifier of a semantic id.                              *)

(* C23: Ident::from(SemId) never fails: the result is 'Auto' and the       *)
(* first 8 hexadecimal digits of the id in upper case, 12 characters that  *)
(* satisfy every rule of an identifier, and ids with the same first four   *)
(* bytes get the same Ident.                                               *)
C23_IdentOfSemId ==
    (call # None /\ LastCall.op = "Ident::from(SemId)") =>
        LET hex == LastCall.input
            out == LastCall.out
        IN  /\ out.kind = "value"
            /\ Len(out.val.ident) = 12
            /\ SubSeq(out.val.ident, 1, 4) = <<"A", "u", "t", "o">>
            /\ \A i \in 1..8 :
                  /\ out.val.ident[4 + i] \in {"0", "7", "A", "F"}
                  /\ out.val.ident[4 + i] \in {hex[i], ToUppercase(hex[i])}
                  /\ out.val.ident[4 + i] \notin {"a", "f"}
            /\ WellFormedIdent(out.val.ident)
            /\ \A i \in 2..12 : out.val.ident[i] \in Letters \cup Digits
            /\ Ident_try_from(out.val.ident) = out
            /\ \A other \in SemIdHexes :
                  SubSeq(other, 1, 8) = SubSeq(hex, 1, 8) => Ident_from_SemId(other) = out

(* The id 7f7f7f7f followed by ff..f becomes Auto7F7F7F7F.                 *)
C23_Witness ==
    /\ call # None
    /\ LastCall.op = "Ident::from(SemId)"
    /\ SubSeq(LastCall.input, 1, 9) = <<"7", "f", "7", "f", "7", "f", "7", "f", "f">>
    /\ LastCall.out = Value(Ident(<<"A", "u", "t", "o", "7", "F", "7", "F", "7", "F", "7", "F">>))


-----------------------------------------------------------------------------
(* Claims on the translation of one root.                                  *)

(* The builder has translated one root, and nothing else.                  *)
OneRoot == Len(log) = 1 /\ log[1].op = "root"

(* The library built from the types nested in the root r.                  *)
NestedLib(r) ==
    build_lib(TypeLib(lib.name, <<>>, {}, <<>>), Scheduled(r.ty), TyId(r.ty, None))

(* C24: translating a root into a library succeeds only for a named root;  *)
(* an anonymous root gives an error, UnknownId of its id if none comes     *)
(* before; on success the roots are the root's id alone and types holds    *)
(* the translated root under its indexed name; when the library built      *)
(* from the nested types holds that name already the result is             *)
(* DuplicateName.                                                          *)
C24_TranslateRoot ==
    OneRoot =>
        LET r == log[1].root
            id == TyId(r.ty, None)
            reached == /\ StenType_index(r, <<>>).ok
                       /\ ~ExceedsLadder(r.ty, 1)
                       /\ NestedLib(r).ok
        IN  /\ r.name = "" =>
                  /\ phase = "failed"
                  /\ error # None
                  /\ reached => error = Some(UnknownId(id))
            /\ phase \in {"building", "frozen"} =>
                  /\ r.name # ""
                  /\ error = None
                  /\ lib.roots = {id}
                  /\ id \in DOMAIN index
                  /\ index[id] = r.name
                  /\ MapHas(lib.types, r.name)
                  /\ MapGet(lib.types, r.name) = TranslateTy(r.ty, 1)
                  /\ ~MapHas(NestedLib(r).lib.types, r.name)
            /\ (r.name # "" /\ reached /\ MapHas(NestedLib(r).lib.types, r.name)) =>
                  /\ phase = "failed"
                  /\ error = Some(DuplicateName(r.name))

(* The set of Foo, named Foo itself: the nested Foo holds the name.        *)
C24_Witness ==
    /\ OneRoot
    /\ log[1].root = FooNestSt
    /\ MapHas(NestedLib(FooNestSt).lib.types, "Foo")
    /\ phase = "failed"
    /\ error = Some(DuplicateName("Foo"))


=============================================================================
